---- MODULE Spec2Model ----
(***************************************************************************)
(* A model of ros_github_scripts/ci_for_pr.py: the resolution of pull      *)
(* request identifiers, the merge of the baseline ros2.repos manifest with *)
(* the pull requests' head repositories, the build-argument assembly, the  *)
(* Jenkins build with its bounded retry loop, and the order in which main  *)
(* runs them and talks to GitHub, the manifest host and Jenkins.           *)
(*                                                                         *)
(* Python values are represented as follows.  A str that the code indexes, *)
(* splits or matches is a sequence of one-character strings; a str that is *)
(* only concatenated and compared is a TLA+ string.  None and the empty    *)
(* value of the same variable are only ever told apart by truth tests in   *)
(* the code (if x, not x, x or y), so both are the empty value here.  A    *)
(* dict is a sequence of entries in insertion order with distinct keys.    *)
(***************************************************************************)
EXTENDS Integers, Sequences, FiniteSets, TLC

(***************************************************************************)
(* Bounds of the model.                                                    *)
(***************************************************************************)
\* longest list of identifiers given to --pulls
MaxPulls == 2

\* most non-empty answers the user gives to the prompt of prompt_pull_selection
MaxInputs == 2

\* longest list of pull requests the merge loop is tried on by itself
MaxOverrides == 2

\* longest list of names given to --packages
MaxPackages == 2

\* the longest console text the report is tried on, in characters
MaxConsole == 4

(***************************************************************************)
(* Characters and strings.                                                 *)
(***************************************************************************)
Digits == <<"0", "1", "2", "3", "4", "5", "6", "7", "8", "9">>

IsDigit(c) == \E k \in 1..Len(Digits) : Digits[k] = c

DigitVal(c) == (CHOOSE k \in 1..Len(Digits) : Digits[k] = c) - 1

\* the characters str.strip() and int() treat as white space
Whitespace == {" ", "\t", "\n"}

\* the TLA+ string spelled by a sequence of characters
RECURSIVE Str(_)
Str(s) == IF s = <<>> THEN "" ELSE s[1] \o Str(Tail(s))

\* str.join on a list of strings
RECURSIVE JoinStr(_, _)
JoinStr(sep, xs) ==
    IF xs = <<>> THEN ""
    ELSE IF Len(xs) = 1 THEN xs[1]
    ELSE xs[1] \o sep \o JoinStr(sep, Tail(xs))

\* str.count of a one-character string
Count(s, c) == Cardinality({k \in 1..Len(s) : s[k] = c})

\* s[a..b] as Python's slice s[a-1:b], empty when the range is
Slice(s, a, b) == IF a > b THEN <<>> ELSE SubSeq(s, a, b)

\* str.startswith at an offset: lit occurs in s at position k
OccursAt(s, lit, k) ==
    /\ k >= 1
    /\ k + Len(lit) - 1 <= Len(s)
    /\ \A n \in 1..Len(lit) : s[k + n - 1] = lit[n]

(***************************************************************************)
(* validate_and_fetch_pull_list: the pattern github_url_re, which is the   *)
(* text https://github.com/ then a greedy group of any characters, "/", a  *)
(* second such group, "/pull/" and a group of one or more digits.  It is   *)
(* applied with re.match, which anchors it at the start of the identifier  *)
(* and not at its end.  The dot of "github.com" is not escaped and matches *)
(* any character but a newline, as do the dots of the two groups.          *)
(***************************************************************************)
UrlScheme == <<"h", "t", "t", "p", "s", ":", "/", "/", "g", "i", "t", "h", "u", "b">>

UrlAfterDot == <<"c", "o", "m", "/">>

PullLiteral == <<"/", "p", "u", "l", "l", "/">>

Dot(c) == c # "\n"

\* the literal head of the pattern; group 1 starts at position 20
UrlHeadLen == Len(UrlScheme) + 1 + Len(UrlAfterDot)

UrlHeadMatches(s) ==
    /\ OccursAt(s, UrlScheme, 1)
    /\ Len(s) >= UrlHeadLen
    /\ Dot(s[Len(UrlScheme) + 1])
    /\ OccursAt(s, UrlAfterDot, Len(UrlScheme) + 2)

\* <<i, j>>: group 1 ends before the "/" at i, group 2 before "/pull/" at j
UrlSplits(s) ==
    {ij \in ((UrlHeadLen + 1)..Len(s)) \X ((UrlHeadLen + 2)..Len(s)) :
        /\ ij[1] < ij[2]
        /\ s[ij[1]] = "/"
        /\ OccursAt(s, PullLiteral, ij[2])
        /\ ij[2] + Len(PullLiteral) <= Len(s)
        /\ IsDigit(s[ij[2] + Len(PullLiteral)])
        /\ \A k \in (UrlHeadLen + 1)..(ij[2] - 1) : k # ij[1] => Dot(s[k])
        /\ Dot(s[ij[1]])}

\* the end of the longest run of digits that starts at position k
RECURSIVE DigitRunEnd(_, _)
DigitRunEnd(s, k) ==
    IF k + 1 <= Len(s) /\ IsDigit(s[k + 1]) THEN DigitRunEnd(s, k + 1) ELSE k

\* re.match(github_url_re, pull): both groups are greedy, so group 1 is the
\* longest that lets the rest match, and then group 2 is
UrlMatch(s) ==
    IF UrlHeadMatches(s) /\ UrlSplits(s) # {}
    THEN LET i == CHOOSE a \in {ij[1] : ij \in UrlSplits(s)} :
                      \A ij \in UrlSplits(s) : ij[1] <= a
             j == CHOOSE b \in {ij[2] : ij \in {x \in UrlSplits(s) : x[1] = i}} :
                      \A ij \in {x \in UrlSplits(s) : x[1] = i} : ij[2] <= b
             d == j + Len(PullLiteral)
         IN  [matched |-> TRUE,
              g1 |-> Slice(s, UrlHeadLen + 1, i - 1),
              g2 |-> Slice(s, i + 1, j - 1),
              g3 |-> Slice(s, d, DigitRunEnd(s, d))]
    ELSE [matched |-> FALSE, g1 |-> <<>>, g2 |-> <<>>, g3 |-> <<>>]

(***************************************************************************)
(* int(pull_number_str): white space is stripped, one sign is allowed, and *)
(* the digits may be grouped by single underscores.                        *)
(***************************************************************************)
RECURSIVE LStrip(_)
LStrip(s) == IF s # <<>> /\ s[1] \in Whitespace THEN LStrip(Tail(s)) ELSE s

RECURSIVE RStrip(_)
RStrip(s) ==
    IF s # <<>> /\ s[Len(s)] \in Whitespace THEN RStrip(Slice(s, 1, Len(s) - 1)) ELSE s

Unsigned(s) == IF s # <<>> /\ s[1] \in {"+", "-"} THEN Tail(s) ELSE s

IsDecimal(s) ==
    /\ s # <<>>
    /\ IsDigit(s[1])
    /\ IsDigit(s[Len(s)])
    /\ \A k \in 1..Len(s) : IsDigit(s[k]) \/ s[k] = "_"
    /\ \A k \in 1..(Len(s) - 1) : ~(s[k] = "_" /\ s[k + 1] = "_")

RECURSIVE DecimalValue(_, _)
DecimalValue(s, acc) ==
    IF s = <<>> THEN acc
    ELSE IF s[1] = "_" THEN DecimalValue(Tail(s), acc)
    ELSE DecimalValue(Tail(s), 10 * acc + DigitVal(s[1]))

\* int(s): ok is FALSE where Python raises ValueError
IntParse(s) ==
    LET t == RStrip(LStrip(s))
        u == Unsigned(t)
    IN  IF IsDecimal(u)
        THEN [ok |-> TRUE,
              value |-> IF t[1] = "-" THEN 0 - DecimalValue(u, 0) ELSE DecimalValue(u, 0)]
        ELSE [ok |-> FALSE, value |-> 0]

(***************************************************************************)
(* Errors.  An exception that nothing catches ends the run; type is the    *)
(* Python class, why tells the raise sites of one class apart.             *)
(***************************************************************************)
NoError == [type |-> "none", why |-> ""]

\* panic(msg), line 54
Panic(why) == [type |-> "RuntimeError", why |-> why]

Raise(type, why) == [type |-> type, why |-> why]

\* Python's truth test of a str or a list
Truthy(x) == Len(x) > 0

(***************************************************************************)
(* validate_and_fetch_pull_list, first loop (lines 183-201): every         *)
(* identifier is parsed and entered in repos_to_prs before anything is     *)
(* fetched.  int() raises ValueError on a malformed number, which the      *)
(* except TypeError clause of line 195 does not catch.                     *)
(***************************************************************************)
\* line 191: repo, pull_number_str = pull.split('#'), for exactly one '#'
SplitHash(pull) ==
    LET k == CHOOSE n \in 1..Len(pull) : pull[n] = "#"
    IN  <<Slice(pull, 1, k - 1), Slice(pull, k + 1, Len(pull))>>

HasKey(d, key) == \E k \in 1..Len(d) : d[k].repo = key

\* ParsePull refusing only an identifier with no '#' at all
ParsePullAnyHash(pull) ==
    LET url_match == UrlMatch(pull)
    IN  IF url_match.matched
        THEN [ok |-> TRUE,
              repo |-> Str(url_match.g1) \o "/" \o Str(url_match.g2),
              pull_number_str |-> url_match.g3]
        ELSE IF Count(pull, "#") = 0
        THEN [ok |-> FALSE, repo |-> "", pull_number_str |-> <<>>]
        ELSE [ok |-> TRUE,
              repo |-> Str(SplitHash(pull)[1]),
              pull_number_str |-> SplitHash(pull)[2]]

\* ParsePull trying the '#' form first and the URL pattern after it
ParsePullHashFirst(pull) ==
    LET url_match == UrlMatch(pull)
    IN  IF Count(pull, "#") = 1
        THEN [ok |-> TRUE,
              repo |-> Str(SplitHash(pull)[1]),
              pull_number_str |-> SplitHash(pull)[2]]
        ELSE IF url_match.matched
        THEN [ok |-> TRUE,
              repo |-> Str(url_match.g1) \o "/" \o Str(url_match.g2),
              pull_number_str |-> url_match.g3]
        ELSE [ok |-> FALSE, repo |-> "", pull_number_str |-> <<>>]

\* lines 184-192: the repository and the number text of one identifier
ParsePull(pull) ==
    LET url_match == UrlMatch(pull)
    IN  IF url_match.matched
        THEN [ok |-> TRUE,
              repo |-> Str(url_match.g1) \o "/" \o Str(url_match.g2),
              pull_number_str |-> url_match.g3]
        ELSE IF Count(pull, "#") # 1
        THEN [ok |-> FALSE, repo |-> "", pull_number_str |-> <<>>]
        ELSE [ok |-> TRUE,
              repo |-> Str(SplitHash(pull)[1]),
              pull_number_str |-> SplitHash(pull)[2]]

RECURSIVE ValidateFrom(_, _, _)
ValidateFrom(pull_list, i, repos_to_prs) ==
    IF i > Len(pull_list)
    THEN [err |-> NoError, repos_to_prs |-> repos_to_prs]
    ELSE LET p == ParsePull(pull_list[i])
             n == IntParse(p.pull_number_str)
         IN  IF ~p.ok
             THEN [err |-> Panic("descriptor format"), repos_to_prs |-> repos_to_prs]
             ELSE IF ~n.ok
             THEN [err |-> Raise("ValueError", "pull number"), repos_to_prs |-> repos_to_prs]
             ELSE IF HasKey(repos_to_prs, p.repo)
             THEN [err |-> Panic("multiple PRs for one repository"),
                   repos_to_prs |-> repos_to_prs]
             ELSE ValidateFrom(pull_list, i + 1,
                      Append(repos_to_prs, [repo |-> p.repo, number |-> n.value]))

ValidatePullList(pull_list) == ValidateFrom(pull_list, 1, <<>>)

(***************************************************************************)
(* create_ci_gist, the merge loop (lines 76-99).  master_repos is the dict *)
(* of the baseline ros2.repos; a pull request is the record of the fields  *)
(* the code reads: base.repo.full_name, head.repo.full_name, head.ref and  *)
(* number.                                                                 *)
(***************************************************************************)
HasName(d, name) == \E k \in 1..Len(d) : d[k].name = name

Lookup(d, name) == d[CHOOSE k \in 1..Len(d) : d[k].name = name]

\* dict.pop(name, None): the dict without the entry
Pop(d, name) == SelectSeq(d, LAMBDA e : e.name # name)

\* d[entry.name] = entry: a present key keeps its place, a new one is last
Put(d, entry) ==
    IF HasName(d, entry.name)
    THEN [k \in 1..Len(d) |-> IF d[k].name = entry.name THEN entry ELSE d[k]]
    ELSE Append(d, entry)

\* OverrideEntry with the new entry keyed by the base repository
OverrideEntryKeyedByBase(github_pr) ==
    [name |-> github_pr.base,
     type |-> "git",
     url |-> "https://github.com/" \o github_pr.head \o ".git",
     version |-> github_pr.ref]

\* lines 95-99
OverrideEntry(github_pr) ==
    [name |-> github_pr.head,
     type |-> "git",
     url |-> "https://github.com/" \o github_pr.head \o ".git",
     version |-> github_pr.ref]

\* line 82
ShortName(github_pr) == github_pr.base \o "#" \o ToString(github_pr.number)

\* NotGitBased with the check of line 87 left out
NotGitBasedUnchecked(repo_entry) == FALSE

\* line 87
NotGitBased(repo_entry) == repo_entry.type # "git"

RECURSIVE MergeFrom(_, _, _, _, _)
MergeFrom(master_repos, pulls, i, shortnames, warned) ==
    IF i > Len(pulls)
    THEN [err |-> NoError, master_repos |-> master_repos,
          shortnames |-> shortnames, warned |-> warned]
    ELSE LET github_pr == pulls[i]
             names == Append(shortnames, ShortName(github_pr))
             found == HasName(master_repos, github_pr.base)
             popped == Pop(master_repos, github_pr.base)
         IN  IF found /\ NotGitBased(Lookup(master_repos, github_pr.base))
             THEN [err |-> Panic("not git-based"), master_repos |-> popped,
                   shortnames |-> names, warned |-> warned]
             ELSE MergeFrom(Put(popped, OverrideEntry(github_pr)), pulls, i + 1, names,
                      IF found THEN warned ELSE Append(warned, github_pr.head))

MergePulls(master_repos, pulls) == MergeFrom(master_repos, pulls, 1, <<>>, <<>>)

(***************************************************************************)
(* Module constants (lines 31-52).                                         *)
(***************************************************************************)
DEFAULT_JOB == "ci_launcher"

CI_SERVER == "https://ci.ros2.org"

SERVER_RETRIES == 2

ROS_DISTRO_TO_UBUNTU_DISTRO ==
    [noetic |-> "focal", humble |-> "jammy", iron |-> "jammy", jazzy |-> "noble",
     kilted |-> "noble", rolling |-> ""]

ROS_DISTRO_TO_RHEL_DISTRO ==
    [humble |-> "8", iron |-> "9", jazzy |-> "9", kilted |-> "9", rolling |-> ""]

\* table[target_release] (lines 253-254): ok is FALSE where Python raises KeyError
LookupDistro(table, target_release) ==
    IF target_release \in DOMAIN table
    THEN [ok |-> TRUE, value |-> table[target_release]]
    ELSE [ok |-> FALSE, value |-> ""]

(***************************************************************************)
(* main, lines 436-452: the check of the build-only arguments and the      *)
(* assembly of the extra build and test arguments.                         *)
(***************************************************************************)
\* PackageFlags with the two modes exchanged
PackageFlagsSwapped(only_fixes_test) ==
    IF only_fixes_test
    THEN [build |-> " --packages-above-and-dependencies ", test |-> " --packages-above "]
    ELSE [build |-> " --packages-up-to ", test |-> " --packages-select "]

\* lines 444-449
PackageFlags(only_fixes_test) ==
    IF only_fixes_test
    THEN [build |-> " --packages-up-to ", test |-> " --packages-select "]
    ELSE [build |-> " --packages-above-and-dependencies ", test |-> " --packages-above "]

\* lines 451-452
WithCmakeArgs(extra_build_args, cmake_args) ==
    IF Truthy(cmake_args)
    THEN extra_build_args \o " --cmake-args " \o cmake_args
    ELSE extra_build_args

\* lines 440-449
WithPackages(args, flag, packages) ==
    IF Truthy(packages) THEN args \o flag \o JoinStr(" ", packages) ELSE args

AssembleArgs(p) ==
    IF ~p.build /\ (Truthy(p.colcon_build_args) \/ Truthy(p.colcon_test_args)
                    \/ Truthy(p.cmake_args))
    THEN [err |-> Panic("build args without build"),
          extra_build_args |-> "", extra_test_args |-> ""]
    ELSE [err |-> NoError,
          extra_build_args |->
              WithCmakeArgs(
                  WithPackages(p.colcon_build_args,
                               PackageFlags(p.only_fixes_test).build, p.packages),
                  p.cmake_args),
          extra_test_args |->
              WithPackages(p.colcon_test_args,
                           PackageFlags(p.only_fixes_test).test, p.packages)]

(***************************************************************************)
(* format_ci_details (lines 211-232).                                      *)
(***************************************************************************)
FormatCiDetails(gist_url, extra_build_args, extra_test_args, target_release, target_pulls, branch_name) ==
    JoinStr("\n",
        (IF Truthy(target_pulls) THEN <<"Pulls: " \o JoinStr(", ", target_pulls)>> ELSE <<>>)
        \o (IF Truthy(gist_url) THEN <<"Gist: " \o gist_url>> ELSE <<>>)
        \o (IF Truthy(branch_name) THEN <<"Branch: " \o branch_name>> ELSE <<>>)
        \o <<"BUILD args: " \o extra_build_args,
             "TEST args: " \o extra_test_args,
             "ROS Distro: " \o target_release,
             "Job: " \o DEFAULT_JOB>>)

(***************************************************************************)
(* run_jenkins_build: the parameters sent to the job (lines 271-289) and   *)
(* the report made of the console output (lines 298-318).                  *)
(***************************************************************************)
\* d[k] = v on a dict held as a function
SetParam(d, k, v) == [x \in DOMAIN d \cup {k} |-> IF x = k THEN v ELSE d[x]]

SetIf(cond, d, k, v) == IF cond THEN SetParam(d, k, v) ELSE d

\* BuildParams without the assignment of line 279
BuildParamsWithoutGistUrl(defaults, gist_url, branch_name, target_release, build_args, test_args) ==
    LET ubuntu_distro == LookupDistro(ROS_DISTRO_TO_UBUNTU_DISTRO, target_release).value
        rhel_distro == LookupDistro(ROS_DISTRO_TO_RHEL_DISTRO, target_release).value
        p2 == SetIf(Truthy(branch_name), defaults, "CI_BRANCH_TO_TEST", branch_name)
        p3 == SetParam(p2, "CI_ROS_DISTRO", target_release)
        p4 == SetParam(p3, "CI_BUILD_ARGS", p3["CI_BUILD_ARGS"] \o " " \o build_args)
        p5 == SetParam(p4, "CI_TEST_ARGS", p4["CI_TEST_ARGS"] \o " " \o test_args)
        p6 == SetIf(Truthy(ubuntu_distro), p5, "CI_UBUNTU_DISTRO", ubuntu_distro)
    IN  SetIf(Truthy(rhel_distro), p6, "CI_EL_RELEASE", rhel_distro)

\* BuildParams with the platform parameters set whatever the tables hold
BuildParamsPlatformAlways(defaults, gist_url, branch_name, target_release, build_args, test_args) ==
    LET ubuntu_distro == LookupDistro(ROS_DISTRO_TO_UBUNTU_DISTRO, target_release).value
        rhel_distro == LookupDistro(ROS_DISTRO_TO_RHEL_DISTRO, target_release).value
        p1 == SetIf(Truthy(gist_url), defaults, "CI_ROS2_REPOS_URL", gist_url)
        p2 == SetIf(Truthy(branch_name), p1, "CI_BRANCH_TO_TEST", branch_name)
        p3 == SetParam(p2, "CI_ROS_DISTRO", target_release)
        p4 == SetParam(p3, "CI_BUILD_ARGS", p3["CI_BUILD_ARGS"] \o " " \o build_args)
        p5 == SetParam(p4, "CI_TEST_ARGS", p4["CI_TEST_ARGS"] \o " " \o test_args)
        p6 == SetParam(p5, "CI_UBUNTU_DISTRO", ubuntu_distro)
    IN  SetParam(p6, "CI_EL_RELEASE", rhel_distro)

\* lines 274-289, for a job whose defaults declare CI_BUILD_ARGS and CI_TEST_ARGS
BuildParams(defaults, gist_url, branch_name, target_release, build_args, test_args) ==
    LET ubuntu_distro == LookupDistro(ROS_DISTRO_TO_UBUNTU_DISTRO, target_release).value
        rhel_distro == LookupDistro(ROS_DISTRO_TO_RHEL_DISTRO, target_release).value
        p1 == SetIf(Truthy(gist_url), defaults, "CI_ROS2_REPOS_URL", gist_url)
        p2 == SetIf(Truthy(branch_name), p1, "CI_BRANCH_TO_TEST", branch_name)
        p3 == SetParam(p2, "CI_ROS_DISTRO", target_release)
        p4 == SetParam(p3, "CI_BUILD_ARGS", p3["CI_BUILD_ARGS"] \o " " \o build_args)
        p5 == SetParam(p4, "CI_TEST_ARGS", p4["CI_TEST_ARGS"] \o " " \o test_args)
        p6 == SetIf(Truthy(ubuntu_distro), p5, "CI_UBUNTU_DISTRO", ubuntu_distro)
    IN  SetIf(Truthy(rhel_distro), p6, "CI_EL_RELEASE", rhel_distro)

\* str.split('\n'): the lines of a text held as a sequence of characters
RECURSIVE SplitLines(_, _, _)
SplitLines(text, k, line) ==
    IF k > Len(text) THEN <<line>>
    ELSE IF text[k] = "\n" THEN <<line>> \o SplitLines(text, k + 1, <<>>)
    ELSE SplitLines(text, k + 1, Append(line, text[k]))

\* IsLinkLine on the line without its leading blanks
IsLinkLineStripped(line) == LStrip(line) # <<>> /\ LStrip(line)[1] = "*"

\* line 315: line.startswith('*')
IsLinkLine(line) == line # <<>> /\ line[1] = "*"

\* a list of str held as character sequences, as TLA+ strings
StrEach(lines) == [k \in 1..Len(lines) |-> Str(lines[k])]

\* lines 298-318
BuildReport(baseurl, console_output) ==
    LET console_lines == SplitLines(console_output, 1, <<>>)
        link_lines == SelectSeq(console_lines, IsLinkLine)
    IN  JoinStr("\n", <<DEFAULT_JOB \o " ran: " \o baseurl>> \o StrEach(link_lines))

(***************************************************************************)
(* The inputs the model draws from: identifiers as the user types them,    *)
(* and what GitHub holds.                                                  *)
(***************************************************************************)
Https == <<"h", "t", "t", "p", "s", ":", "/", "/">>

GithubHost == <<"g", "i", "t", "h", "u", "b", ".", "c", "o", "m">>

GitlabHost == <<"g", "i", "t", "l", "a", "b", ".", "c", "o", "m">>

Ros2 == <<"r", "o", "s", "2">>

Rclpy == <<"r", "c", "l", "p", "y">>

Rcl == <<"r", "c", "l">>

\* 'org/repo#number'
HashId(org, repo, number) == org \o <<"/">> \o repo \o <<"#">> \o number

\* 'https://host/org/repo/pull/number'
UrlId(host, org, repo, number) ==
    Https \o host \o <<"/">> \o org \o <<"/">> \o repo \o PullLiteral \o number

Hosts == {GithubHost, GitlabHost}

Orgs == {Ros2}

Repos == {Rclpy, Rcl}

\* pull numbers as typed, with the integer each spells
Numbers == {<<<<"3", "5", "3">>, 353>>, <<<<"7">>, 7>>, <<<<"3", "6", "0">>, 360>>}

WellFormedIds ==
    {HashId(o, r, n[1]) : o \in Orgs, r \in Repos, n \in Numbers}
    \cup {UrlId(h, o, r, n[1]) : h \in Hosts, o \in Orgs, r \in Repos, n \in Numbers}

OddIds ==
    {Ros2 \o <<"/">> \o Rclpy,
     HashId(Ros2, Rclpy, <<"3">>) \o <<"#", "5">>,
     HashId(Ros2, Rclpy, <<"x">>),
     HashId(Ros2, Rclpy, <<>>),
     HashId(Ros2, Rclpy, <<" ", "7", "\n">>),
     HashId(Ros2, Rclpy, <<"-", "7">>),
     HashId(Ros2, Rclpy, <<"3", "_", "5">>),
     HashId(Ros2, Rclpy, <<"3", "5", "3", "a">>),
     UrlId(GithubHost, Ros2, Rclpy, <<"3", "5", "3">>) \o <<"/", "f", "i", "l", "e", "s">>,
     UrlId(GithubHost, Ros2, Rclpy, <<"x">>),
     UrlId(<<"g", "i", "t", "h", "u", "b", "-", "c", "o", "m">>, Ros2, Rclpy, <<"7">>),
     UrlId(GithubHost, Ros2 \o <<"#">>, Rclpy, <<"7">>),
     <<"h", "t", "t", "p", ":", "/", "/">> \o GithubHost \o <<"/">> \o Ros2 \o <<"/">>
         \o Rclpy \o PullLiteral \o <<"7">>}

\* the identifiers validate_and_fetch_pull_list is tried on by itself
ResolveIds == WellFormedIds \cup OddIds

\* the identifiers a run of main is given
MainIds ==
    {HashId(Ros2, Rclpy, <<"3", "5", "3">>),
     UrlId(GithubHost, Ros2, Rclpy, <<"3", "6", "0">>),
     HashId(Ros2, Rcl, <<"7">>),
     Ros2 \o <<"/">> \o Rclpy}

\* the non-empty lists of at most n elements of S
ListsUpTo(S, n) == UNION {[1..k -> S] : k \in 1..n}

PullRequest(base, number, head, ref) ==
    [base |-> base, number |-> number, head |-> head, ref |-> ref]

\* the open pull requests GitHub holds
PullDB ==
    {PullRequest("ros2/rclpy", 353, "alice/rclpy", "fix-a"),
     PullRequest("ros2/rclpy", 360, "alice/rclpy", "fix-b"),
     PullRequest("ros2/rcl", 7, "ros2/rcl", "feature")}

HasPull(repo, number) == \E pr \in PullDB : pr.base = repo /\ pr.number = number

\* gh_repo.get_pull(number), issue.as_pull_request()
ThePull(repo, number) == CHOOSE pr \in PullDB : pr.base = repo /\ pr.number = number

\* what search_issues can return for the authenticated user (line 125)
UserIssueLists ==
    {<<>>,
     <<[repo |-> "ros2/rclpy", number |-> 353],
       [repo |-> "ros2/rclpy", number |-> 360],
       [repo |-> "ros2/rcl", number |-> 7]>>}

\* what the user can type at the prompt (line 158)
PromptInputs == {<<>>, <<"0">>, <<"1">>, <<"2">>, <<"-", "1">>, <<"5">>, <<"x">>}

ManifestEntry(name, type, version) ==
    [name |-> name, type |-> type,
     url |-> "https://github.com/" \o name \o ".git", version |-> version]

\* the ros2.repos documents fetch_repos can return to a run of main
MainBaselines ==
    {<<ManifestEntry("ros2/rcl", "git", "rolling"),
       ManifestEntry("ros2/rclpy", "git", "rolling")>>,
     <<ManifestEntry("ros2/rcl", "hg", "rolling")>>}

\* the parameters ci_launcher declares, with their defaults (line 271)
JobDefaults ==
    {[CI_ROS2_REPOS_URL |-> "https://raw.githubusercontent.com/ros2/ros2/rolling/ros2.repos",
      CI_BRANCH_TO_TEST |-> "",
      CI_ROS_DISTRO |-> "rolling",
      CI_BUILD_ARGS |-> "--event-handlers console_cohesion+",
      CI_TEST_ARGS |-> "--retest-until-pass 2",
      CI_UBUNTU_DISTRO |-> "noble",
      CI_EL_RELEASE |-> "9",
      CI_USE_CONNEXTDDS |-> "true"]}

\* build_job = None (line 260)
NoJob == [name |-> "", defaults |-> [x \in {} |-> ""]]

\* console outputs of a finished ci_launcher build (line 297)
Consoles ==
    {<<"S", "\n", "*", " ", "L", "\n", "T", "\n", "*", " ", "W", "\n", "F">>,
     <<"S", "\n", " ", "*", "\n", "F">>}

(***************************************************************************)
(* The command line (parse_args, lines 341-396).  --pulls and              *)
(* --interactive exclude each other; nargs='+' makes a given list          *)
(* non-empty.                                                              *)
(***************************************************************************)
Parsed(branch, pulls, interactive, target, build, comment, late) ==
    [branch |-> branch, pulls |-> pulls, interactive |-> interactive,
     target |-> target, build |-> build, comment |-> comment,
     packages |-> late.packages, only_fixes_test |-> late.only_fixes_test,
     colcon_build_args |-> late.colcon_build_args,
     colcon_test_args |-> late.colcon_test_args, cmake_args |-> late.cmake_args]

LateArgs(packages, only_fixes_test, colcon_build_args, colcon_test_args, cmake_args) ==
    [packages |-> packages, only_fixes_test |-> only_fixes_test,
     colcon_build_args |-> colcon_build_args, colcon_test_args |-> colcon_test_args,
     cmake_args |-> cmake_args]

Branches == {"", "feature"}

Targets == {"rolling", "humble", "noetic", "unknown-distro"}

PackageNames == {"rclpy", "rcl"}

\* the build and package options a run of main is given
MainLateArgs ==
    {LateArgs(<<>>, FALSE, "", "", ""),
     LateArgs(<<"rclpy">>, FALSE, "", "", ""),
     LateArgs(<<"rclpy">>, TRUE, "", "", ""),
     LateArgs(<<>>, FALSE, "--symlink-install", "", ""),
     LateArgs(<<>>, FALSE, "", "--retest-until-pass 3", ""),
     LateArgs(<<>>, FALSE, "", "", "-DFOO=1"),
     LateArgs(<<"rclpy">>, TRUE, "--symlink-install", "--retest-until-pass 3", "-DFOO=1")}

\* the build and package options the argument assembly is tried on by itself
AllLateArgs ==
    {LateArgs(pk, ofx, cba, cta, cm) :
        pk \in {<<>>} \cup ListsUpTo(PackageNames, MaxPackages),
        ofx \in BOOLEAN,
        cba \in {"", "--symlink-install"},
        cta \in {"", "--retest-until-pass 3"},
        cm \in {"", "-DFOO=1"}}

MainSelections ==
    {[interactive |-> TRUE, pulls |-> <<>>], [interactive |-> FALSE, pulls |-> <<>>]}
    \cup {[interactive |-> FALSE, pulls |-> l] : l \in ListsUpTo(MainIds, MaxPulls)}

MainInputs ==
    {Parsed(b, sel.pulls, sel.interactive, t, bd, c, late) :
        b \in Branches, sel \in MainSelections, t \in Targets,
        bd \in BOOLEAN, c \in BOOLEAN, late \in MainLateArgs}

(***************************************************************************)
(* The state of a run.                                                     *)
(***************************************************************************)
VARIABLES
    parsed,            \* the parsed command line
    token,             \* whether GITHUB_ACCESS_TOKEN or GITHUB_TOKEN is set
    pc,                \* the place the run is at
    err,               \* the uncaught exception that ended the run, or NoError
    net,               \* the remote calls made so far, in order, with their outcomes
    repos_to_prs,      \* validate_and_fetch_pull_list: repository -> pull number
    all_user_pulls,    \* the issues fetch_user_pulls returned
    choices,           \* prompt_pull_selection: chosen index -> issue
    texts,             \* prompt_pull_selection: the labels of the chosen issues
    ninputs,           \* the non-empty answers given at the prompt so far
    return_prs,        \* the list a selection function is building to return
    chosen_pulls,      \* main: the pull requests of the run
    pull_texts,        \* main: the labels shown for them
    baseline,          \* the ros2.repos document fetch_repos returned
    master_repos,      \* create_ci_gist: the manifest being built
    shortnames,        \* create_ci_gist: the names for the gist's description
    warned,            \* create_ci_gist: the repositories warned about (line 90)
    gists,             \* the gists published on GitHub
    gist_url,          \* main: the raw URL of the gist
    extra_build_args,  \* main
    extra_test_args,   \* main
    comment_texts,     \* main
    retries_remaining, \* run_jenkins_build
    build_job,         \* run_jenkins_build
    build_params,      \* run_jenkins_build: the parameters sent to the job
    console_output,    \* run_jenkins_build: the console text of the build (line 297)
    comments           \* the comments posted on pull requests

selVars ==
    <<repos_to_prs, all_user_pulls, choices, texts, ninputs, return_prs, chosen_pulls, pull_texts>>

gistVars == <<baseline, master_repos, shortnames, warned, gists, gist_url>>

argVars == <<extra_build_args, extra_test_args, comment_texts>>

jenkinsVars == <<retries_remaining, build_job, build_params, console_output>>

vars == <<parsed, token, pc, err, net, selVars, gistVars, argVars, jenkinsVars, comments>>

\* the state before the first statement of the function that starts at place
Entry(place) ==
    /\ pc = place
    /\ err = NoError
    /\ net = <<>>
    /\ repos_to_prs = <<>>
    /\ all_user_pulls = <<>>
    /\ choices = <<>>
    /\ texts = <<>>
    /\ ninputs = 0
    /\ return_prs = <<>>
    /\ shortnames = <<>>
    /\ warned = <<>>
    /\ gists = <<>>
    /\ gist_url = ""
    /\ extra_build_args = ""
    /\ extra_test_args = ""
    /\ comment_texts = <<>>
    /\ retries_remaining = SERVER_RETRIES
    /\ build_job = NoJob
    /\ build_params = [x \in {} |-> ""]
    /\ console_output = <<>>
    /\ comments = <<>>

Init ==
    /\ parsed \in MainInputs
    /\ token \in BOOLEAN
    /\ chosen_pulls = <<>>
    /\ pull_texts = <<>>
    /\ baseline = <<>>
    /\ master_repos = <<>>
    /\ Entry("main")

\* a remote call, as net records it
Call(name, arg, outcome) == [call |-> name, arg |-> arg, outcome |-> outcome]

\* an uncaught exception ends the run
Fail(e) == err' = e /\ pc' = "exit"

(***************************************************************************)
(* main, lines 400-416: the token, then the way pull requests are chosen.  *)
(***************************************************************************)
Main ==
    /\ pc = "main"
    /\ IF ~token
       THEN Fail(Panic("no token")) /\ UNCHANGED pull_texts
       ELSE /\ pull_texts' = StrEach(parsed.pulls)
            /\ pc' = IF parsed.interactive THEN "fetch_user_pulls"
                     ELSE IF Truthy(parsed.pulls) THEN "validate"
                     ELSE "check_selection"
            /\ err' = err
    /\ UNCHANGED <<parsed, token, net, repos_to_prs, all_user_pulls, choices, texts,
                   ninputs, return_prs, chosen_pulls, gistVars, argVars, jenkinsVars,
                   comments>>

(***************************************************************************)
(* fetch_user_pulls (lines 111-130): user.login and prs.totalCount are the *)
(* two remote calls.                                                       *)
(***************************************************************************)
FetchUserPulls ==
    /\ pc = "fetch_user_pulls"
    /\ \/ /\ net' = Append(net, Call("github.get_user", "", "error"))
          /\ Fail(Raise("GithubException", "get_user"))
          /\ UNCHANGED all_user_pulls
       \/ /\ net' = Append(net, Call("github.get_user", "", "ok"))
          /\ Fail(Panic("no user login"))
          /\ UNCHANGED all_user_pulls
       \/ /\ net' = net \o <<Call("github.get_user", "", "ok"),
                             Call("github.search_issues", "", "error")>>
          /\ Fail(Raise("GithubException", "search_issues"))
          /\ UNCHANGED all_user_pulls
       \/ \E prs \in UserIssueLists :
             /\ net' = net \o <<Call("github.get_user", "", "ok"),
                                Call("github.search_issues", "", "ok")>>
             /\ all_user_pulls' = prs
             /\ IF Len(prs) = 0
                THEN Fail(Panic("no open PRs"))
                ELSE pc' = "prompt" /\ err' = err
    /\ UNCHANGED <<parsed, token, repos_to_prs, choices, texts, ninputs, return_prs,
                   chosen_pulls, pull_texts, gistVars, argVars, jenkinsVars, comments>>

(***************************************************************************)
(* prompt_pull_selection (lines 137-174), one answer of the user at a time.*)
(***************************************************************************)
\* line 134
PrintFormatIssue(issue) == issue.repo \o "#" \o ToString(issue.number)

\* pulls[choice_index]: Python indexing, negative indexes count from the end
InRange(pulls, index) == 0 - Len(pulls) <= index /\ index < Len(pulls)

ItemAt(pulls, index) == IF index >= 0 THEN pulls[index + 1] ELSE pulls[Len(pulls) + index + 1]

\* choices[choice_index] = current_choice
PutChoice(d, index, issue) ==
    IF \E k \in 1..Len(d) : d[k].index = index
    THEN [k \in 1..Len(d) |-> IF d[k].index = index THEN [index |-> index, issue |-> issue]
                                                    ELSE d[k]]
    ELSE Append(d, [index |-> index, issue |-> issue])

PromptPullSelection ==
    /\ pc = "prompt"
    /\ \E choice \in PromptInputs :
          /\ Truthy(choice) => ninputs < MaxInputs
          /\ IF ~Truthy(choice) /\ Len(choices) > 0
             THEN /\ pc' = "as_pull_request"
                  /\ UNCHANGED <<texts, choices, ninputs>>
             ELSE LET n == IntParse(choice)
                  IN  /\ pc' = pc
                      /\ ninputs' = IF Truthy(choice) THEN ninputs + 1 ELSE ninputs
                      /\ IF n.ok /\ InRange(all_user_pulls, n.value)
                         THEN /\ texts' = Append(texts,
                                     PrintFormatIssue(ItemAt(all_user_pulls, n.value)))
                              /\ choices' = PutChoice(choices, n.value,
                                     ItemAt(all_user_pulls, n.value))
                         ELSE UNCHANGED <<texts, choices>>
    /\ UNCHANGED <<parsed, token, err, net, repos_to_prs, all_user_pulls, return_prs,
                   chosen_pulls, pull_texts, gistVars, argVars, jenkinsVars, comments>>

\* line 174 and main, line 414: one as_pull_request() per chosen issue
AsPullRequest ==
    /\ pc = "as_pull_request"
    /\ LET k == Len(return_prs) + 1
           issue == choices[k].issue
       IN  \/ /\ net' = Append(net, Call("issue.as_pull_request", PrintFormatIssue(issue), "error"))
              /\ Fail(Raise("GithubException", "as_pull_request"))
              /\ UNCHANGED <<return_prs, chosen_pulls, pull_texts>>
           \/ /\ HasPull(issue.repo, issue.number)
              /\ net' = Append(net, Call("issue.as_pull_request", PrintFormatIssue(issue), "ok"))
              /\ return_prs' = Append(return_prs, ThePull(issue.repo, issue.number))
              /\ err' = err
              /\ IF k = Len(choices)
                 THEN /\ pc' = "check_selection"
                      /\ chosen_pulls' = return_prs'
                      /\ pull_texts' = texts
                 ELSE pc' = pc /\ UNCHANGED <<chosen_pulls, pull_texts>>
    /\ UNCHANGED <<parsed, token, repos_to_prs, all_user_pulls, choices, texts, ninputs,
                   gistVars, argVars, jenkinsVars, comments>>

(***************************************************************************)
(* validate_and_fetch_pull_list (lines 177-208): the identifiers are all   *)
(* parsed first, then the pull requests are fetched one repository at a    *)
(* time, in the order of repos_to_prs.                                     *)
(***************************************************************************)
ValidatePulls ==
    /\ pc = "validate"
    /\ LET r == ValidatePullList(parsed.pulls)
       IN  /\ repos_to_prs' = r.repos_to_prs
           /\ IF r.err # NoError THEN Fail(r.err) ELSE pc' = "fetch_pulls" /\ err' = err
    /\ UNCHANGED <<parsed, token, net, all_user_pulls, choices, texts, ninputs, return_prs,
                   chosen_pulls, pull_texts, gistVars, argVars, jenkinsVars, comments>>

FetchPull ==
    /\ pc = "fetch_pulls"
    /\ LET k == Len(return_prs) + 1
           repo_name == repos_to_prs[k].repo
           pull_number == repos_to_prs[k].number
           label == repo_name \o "#" \o ToString(pull_number)
       IN  \/ /\ net' = Append(net, Call("github.get_repo", repo_name, "error"))
              /\ Fail(Raise("GithubException", "get_repo"))
              /\ UNCHANGED <<return_prs, chosen_pulls>>
           \/ /\ net' = net \o <<Call("github.get_repo", repo_name, "ok"),
                                 Call("repo.get_pull", label, "error")>>
              /\ Fail(Raise("GithubException", "get_pull"))
              /\ UNCHANGED <<return_prs, chosen_pulls>>
           \/ /\ HasPull(repo_name, pull_number)
              /\ net' = net \o <<Call("github.get_repo", repo_name, "ok"),
                                 Call("repo.get_pull", label, "ok")>>
              /\ return_prs' = Append(return_prs, ThePull(repo_name, pull_number))
              /\ err' = err
              /\ IF k = Len(repos_to_prs)
                 THEN pc' = "check_selection" /\ chosen_pulls' = return_prs'
                 ELSE pc' = pc /\ UNCHANGED chosen_pulls
    /\ UNCHANGED <<parsed, token, repos_to_prs, all_user_pulls, choices, texts, ninputs,
                   pull_texts, gistVars, argVars, jenkinsVars, comments>>

\* NeedsGist without the test of the branch name
NeedsGistForAnyPulls(pulls, branch_name) == Truthy(pulls)

\* main, line 432: a gist is made for pull requests chosen without a branch
NeedsGist(pulls, branch_name) == Truthy(pulls) /\ ~Truthy(branch_name)

\* CheckSelection without the check of lines 424-427
CheckSelectionWithoutCommentCheck ==
    /\ pc = "check_selection"
    /\ IF ~Truthy(parsed.branch) /\ ~Truthy(chosen_pulls)
       THEN Fail(Panic("no PRs selected"))
       ELSE /\ pc' = IF NeedsGist(chosen_pulls, parsed.branch)
                     THEN "fetch_repos" ELSE "assemble_args"
            /\ err' = err
    /\ UNCHANGED <<parsed, token, net, selVars, gistVars, argVars, jenkinsVars, comments>>

\* main, lines 418-432
CheckSelection ==
    /\ pc = "check_selection"
    /\ IF ~Truthy(parsed.branch) /\ ~Truthy(chosen_pulls)
       THEN Fail(Panic("no PRs selected"))
       ELSE IF Truthy(parsed.branch) /\ parsed.comment /\ ~Truthy(chosen_pulls)
       THEN Fail(Panic("no PRs to comment on"))
       ELSE /\ pc' = IF NeedsGist(chosen_pulls, parsed.branch)
                     THEN "fetch_repos" ELSE "assemble_args"
            /\ err' = err
    /\ UNCHANGED <<parsed, token, net, selVars, gistVars, argVars, jenkinsVars, comments>>

(***************************************************************************)
(* create_ci_gist (lines 68-108) and main, lines 433-434: the baseline is  *)
(* fetched, merged with the pull requests and published as a gist.         *)
(***************************************************************************)
\* fetch_repos (lines 58-65); requests.get does not raise on an HTTP error
\* status, so a missing document fails at toplevel_dict['repositories']
FetchRepos ==
    /\ pc = "fetch_repos"
    /\ \/ /\ net' = Append(net, Call("requests.get", parsed.target, "error"))
          /\ Fail(Raise("ConnectionError", "fetch_repos"))
          /\ UNCHANGED <<baseline, master_repos>>
       \/ /\ net' = Append(net, Call("requests.get", parsed.target, "ok"))
          /\ Fail(Raise("KeyError", "repositories"))
          /\ UNCHANGED <<baseline, master_repos>>
       \/ \E repositories \in MainBaselines :
             /\ net' = Append(net, Call("requests.get", parsed.target, "ok"))
             /\ baseline' = repositories
             /\ master_repos' = repositories
             /\ pc' = "merge"
             /\ err' = err
    /\ UNCHANGED <<parsed, token, selVars, shortnames, warned, gists, gist_url, argVars,
                   jenkinsVars, comments>>

\* lines 76-99
MergeManifest ==
    /\ pc = "merge"
    /\ LET r == MergePulls(master_repos, chosen_pulls)
       IN  /\ master_repos' = r.master_repos
           /\ shortnames' = r.shortnames
           /\ warned' = r.warned
           /\ IF r.err # NoError THEN Fail(r.err) ELSE pc' = "create_gist" /\ err' = err
    /\ UNCHANGED <<parsed, token, net, selVars, baseline, gists, gist_url, argVars,
                   jenkinsVars, comments>>

RawUrl == "https://gist.githubusercontent.com/raw/ros2.repos"

\* lines 101-108 and 434
CreateGist ==
    /\ pc = "create_gist"
    /\ \/ /\ net' = Append(net, Call("user.create_gist", "", "error"))
          /\ Fail(Raise("GithubException", "create_gist"))
          /\ UNCHANGED <<gists, gist_url>>
       \/ /\ net' = Append(net, Call("user.create_gist", "", "ok"))
          /\ gists' = Append(gists,
                 [repositories |-> master_repos,
                  description |-> "CI input for PR " \o JoinStr(" ", shortnames)])
          /\ gist_url' = RawUrl
          /\ pc' = "assemble_args"
          /\ err' = err
    /\ UNCHANGED <<parsed, token, selVars, baseline, master_repos, shortnames, warned,
                   argVars, jenkinsVars, comments>>

\* main, lines 436-462
AssembleArguments ==
    /\ pc = "assemble_args"
    /\ LET r == AssembleArgs(parsed)
       IN  IF r.err # NoError
           THEN Fail(r.err) /\ UNCHANGED argVars
           ELSE /\ extra_build_args' = r.extra_build_args
                /\ extra_test_args' = r.extra_test_args
                /\ comment_texts' =
                       <<FormatCiDetails(gist_url, r.extra_build_args, r.extra_test_args,
                                         parsed.target, pull_texts, parsed.branch)>>
                /\ pc' = IF parsed.build THEN "get_user" ELSE "comment"
                /\ err' = err
    /\ UNCHANGED <<parsed, token, net, selVars, gistVars, jenkinsVars, comments>>

\* main, line 464: github_instance.get_user().login
GetUserLogin ==
    /\ pc = "get_user"
    /\ \/ /\ net' = Append(net, Call("github.get_user", "", "error"))
          /\ Fail(Raise("GithubException", "get_user"))
       \/ /\ net' = Append(net, Call("github.get_user", "", "ok"))
          /\ pc' = "run_jenkins_build"
          /\ err' = err
    /\ UNCHANGED <<parsed, token, selVars, gistVars, argVars, jenkinsVars, comments>>

(***************************************************************************)
(* run_jenkins_build (lines 235-318).                                      *)
(***************************************************************************)
\* lines 250-260: the assertion, the two table lookups, the connection
JenkinsConnect ==
    /\ pc = "run_jenkins_build"
    /\ IF ~(Truthy(gist_url) \/ Truthy(parsed.branch))
       THEN Fail(Raise("AssertionError", "gist_url or branch_name")) /\ UNCHANGED net
       ELSE IF ~LookupDistro(ROS_DISTRO_TO_UBUNTU_DISTRO, parsed.target).ok
       THEN Fail(Raise("KeyError", "ROS_DISTRO_TO_UBUNTU_DISTRO")) /\ UNCHANGED net
       ELSE IF ~LookupDistro(ROS_DISTRO_TO_RHEL_DISTRO, parsed.target).ok
       THEN Fail(Raise("KeyError", "ROS_DISTRO_TO_RHEL_DISTRO")) /\ UNCHANGED net
       ELSE \/ /\ net' = Append(net, Call("jenkins.connect", CI_SERVER, "error"))
               /\ Fail(Raise("JenkinsAPIException", "connect"))
            \/ /\ net' = Append(net, Call("jenkins.connect", CI_SERVER, "ok"))
               /\ pc' = "fetch_job"
               /\ err' = err
    /\ retries_remaining' = SERVER_RETRIES
    /\ build_job' = NoJob
    /\ UNCHANGED <<parsed, token, selVars, gistVars, argVars, build_params, console_output,
                   comments>>

\* Retryable with an except clause that catches every exception
RetryableAny(outcome) == TRUE

\* line 266: the failures of the fetch that the except clause catches
Retryable(outcome) == outcome = "ConnectionError"

\* RetriesExhausted one retry early
RetriesExhaustedEarly(retries) == retries <= 0

\* line 269: no retry is left
RetriesExhausted(retries) == retries < 0

\* lines 261-270: one pass of the retry loop
FetchJobInfo ==
    /\ pc = "fetch_job"
    /\ IF retries_remaining < 0
       THEN /\ pc' = "invoke"
            /\ UNCHANGED <<err, net, retries_remaining, build_job>>
       ELSE \/ \E defaults \in JobDefaults :
                  /\ net' = Append(net, Call("jenkins.get_job", DEFAULT_JOB, "ok"))
                  /\ build_job' = [name |-> DEFAULT_JOB, defaults |-> defaults]
                  /\ pc' = "invoke"
                  /\ UNCHANGED <<err, retries_remaining>>
            \/ \E outcome \in {"ConnectionError", "UnknownJob"} :
                  /\ net' = Append(net, Call("jenkins.get_job", DEFAULT_JOB, outcome))
                  /\ IF Retryable(outcome)
                     THEN /\ retries_remaining' = retries_remaining - 1
                          /\ IF RetriesExhausted(retries_remaining')
                             THEN Fail(Raise(outcome, "get_job"))
                             ELSE pc' = pc /\ err' = err
                     ELSE Fail(Raise(outcome, "get_job")) /\ UNCHANGED retries_remaining
                  /\ UNCHANGED build_job
    /\ UNCHANGED <<parsed, token, selVars, gistVars, argVars, build_params, console_output,
                   comments>>

\* lines 271-294: build_job.get_params() reads the job info already fetched
InvokeBuild ==
    /\ pc = "invoke"
    /\ IF build_job = NoJob
       THEN Fail(Raise("AttributeError", "get_params")) /\ UNCHANGED <<net, build_params>>
       ELSE /\ build_params' = BuildParams(build_job.defaults, gist_url, parsed.branch,
                                           parsed.target, extra_build_args, extra_test_args)
            /\ \/ /\ net' = Append(net, Call("job.invoke", DEFAULT_JOB, "error"))
                  /\ Fail(Raise("JenkinsAPIException", "invoke"))
               \/ /\ net' = Append(net, Call("job.invoke", DEFAULT_JOB, "ok"))
                  /\ pc' = "get_build"
                  /\ err' = err
    /\ UNCHANGED <<parsed, token, selVars, gistVars, argVars, retries_remaining, build_job,
                   console_output, comments>>

\* line 296
GetBuild ==
    /\ pc = "get_build"
    /\ \/ /\ net' = Append(net, Call("queue_item.get_build", DEFAULT_JOB, "error"))
          /\ Fail(Raise("JenkinsAPIException", "get_build"))
       \/ /\ net' = Append(net, Call("queue_item.get_build", DEFAULT_JOB, "ok"))
          /\ pc' = "get_console"
          /\ err' = err
    /\ UNCHANGED <<parsed, token, selVars, gistVars, argVars, jenkinsVars, comments>>

BaseUrl == CI_SERVER \o "/job/" \o DEFAULT_JOB \o "/1"

\* lines 297-318 and main, lines 465-473, the server answering with one of
\* outputs
GetConsoleFrom(outputs) ==
    /\ pc = "get_console"
    /\ \/ /\ net' = Append(net, Call("build.get_console", DEFAULT_JOB, "error"))
          /\ Fail(Raise("JenkinsAPIException", "get_console"))
          /\ UNCHANGED <<comment_texts, console_output>>
       \/ \E text \in outputs :
             /\ net' = Append(net, Call("build.get_console", DEFAULT_JOB, "ok"))
             /\ console_output' = text
             /\ comment_texts' = Append(comment_texts, BuildReport(BaseUrl, text))
             /\ pc' = "comment"
             /\ err' = err
    /\ UNCHANGED <<parsed, token, selVars, gistVars, extra_build_args, extra_test_args,
                   retries_remaining, build_job, build_params, comments>>

GetConsole == GetConsoleFrom(Consoles)

(***************************************************************************)
(* comment_results (lines 321-338), one pull request at a time.            *)
(***************************************************************************)
CommentResults ==
    /\ pc = "comment"
    /\ LET k == Len(comments) + 1
       IN  IF ~parsed.comment \/ k > Len(chosen_pulls)
           THEN pc' = "done" /\ UNCHANGED <<err, net, comments>>
           ELSE \/ /\ net' = Append(net, Call("pull.create_issue_comment",
                                              ShortName(chosen_pulls[k]), "error"))
                   /\ Fail(Raise("GithubException", "create_issue_comment"))
                   /\ UNCHANGED comments
                \/ /\ net' = Append(net, Call("pull.create_issue_comment",
                                              ShortName(chosen_pulls[k]), "ok"))
                   /\ comments' = Append(comments,
                          [pull |-> chosen_pulls[k], body |-> JoinStr("\n", comment_texts)])
                   /\ pc' = IF k = Len(chosen_pulls) THEN "done" ELSE pc
                   /\ err' = err
    /\ UNCHANGED <<parsed, token, selVars, gistVars, argVars, jenkinsVars>>

Next ==
    \/ Main
    \/ FetchUserPulls
    \/ PromptPullSelection
    \/ AsPullRequest
    \/ ValidatePulls
    \/ FetchPull
    \/ CheckSelection
    \/ FetchRepos
    \/ MergeManifest
    \/ CreateGist
    \/ AssembleArguments
    \/ GetUserLogin
    \/ JenkinsConnect
    \/ FetchJobInfo
    \/ InvokeBuild
    \/ GetBuild
    \/ GetConsole
    \/ CommentResults

Spec == Init /\ [][Next]_vars

(***************************************************************************)
(* validate_and_fetch_pull_list by itself, on every list of identifiers.   *)
(***************************************************************************)
NoLateArgs == LateArgs(<<>>, FALSE, "", "", "")

InitResolve ==
    /\ parsed \in {Parsed("", l, FALSE, "rolling", FALSE, FALSE, NoLateArgs) :
                      l \in ListsUpTo(ResolveIds, MaxPulls)}
    /\ token = TRUE
    /\ chosen_pulls = <<>>
    /\ pull_texts = StrEach(parsed.pulls)
    /\ baseline = <<>>
    /\ master_repos = <<>>
    /\ Entry("validate")

NextResolve == ValidatePulls \/ FetchPull

SpecResolve == InitResolve /\ [][NextResolve]_vars

(***************************************************************************)
(* create_ci_gist after the fetch of the baseline: the merge loop and the  *)
(* publication, on every baseline and every list of pull requests over     *)
(* three repository names.                                                 *)
(***************************************************************************)
MergeNames == <<"ros2/rcl", "ros2/rclpy", "alice/rclpy">>

MergeNameSet == {MergeNames[k] : k \in 1..Len(MergeNames)}

\* the baselines: each name is absent, a git entry or a mercurial entry
MergeBaselines ==
    {LET all == [k \in 1..Len(MergeNames) |->
                    ManifestEntry(MergeNames[k], kind[MergeNames[k]], "rolling")]
     IN  SelectSeq(all, LAMBDA e : e.type # "absent") :
        kind \in [MergeNameSet -> {"absent", "git", "hg"}]}

MergePullRequests ==
    {PullRequest(base, 353, head, ref) :
        base \in MergeNameSet, head \in MergeNameSet, ref \in {"fix-a", "fix-b"}}

InitMerge ==
    /\ parsed = Parsed("", <<>>, FALSE, "rolling", FALSE, FALSE, NoLateArgs)
    /\ token = TRUE
    /\ chosen_pulls \in ListsUpTo(MergePullRequests, MaxOverrides)
    /\ pull_texts = <<>>
    /\ baseline \in MergeBaselines
    /\ master_repos = baseline
    /\ Entry("merge")

NextMerge == MergeManifest \/ CreateGist

SpecMerge == InitMerge /\ [][NextMerge]_vars

(***************************************************************************)
(* The argument assembly of main by itself, on every combination of the    *)
(* build and package options.                                              *)
(***************************************************************************)
InitArgs ==
    /\ parsed \in {Parsed("feature", <<>>, FALSE, "rolling", bd, FALSE, late) :
                      bd \in BOOLEAN, late \in AllLateArgs}
    /\ token = TRUE
    /\ chosen_pulls = <<>>
    /\ pull_texts = <<>>
    /\ baseline = <<>>
    /\ master_repos = <<>>
    /\ Entry("assemble_args")

NextArgs == AssembleArguments

SpecArgs == InitArgs /\ [][NextArgs]_vars

(***************************************************************************)
(* run_jenkins_build from line 271 on, the job info fetched: on jobs that  *)
(* declare different parameters, with a gist or a branch or both, on the   *)
(* targets both tables know.                                               *)
(***************************************************************************)
\* a job that declares no platform parameter and no branch parameter
ParamJobDefaults ==
    JobDefaults \cup
    {[CI_ROS2_REPOS_URL |-> "", CI_ROS_DISTRO |-> "humble", CI_BUILD_ARGS |-> "",
      CI_TEST_ARGS |-> "--retest-until-pass 2", CI_ISOLATED |-> "true"]}

ParamTargets == {"rolling", "humble", "jazzy"}

ParamArgs == {"", "--packages-up-to rclpy", " --cmake-args -DX=1"}

InitParams ==
    /\ parsed \in {Parsed(b, <<>>, FALSE, t, TRUE, FALSE, NoLateArgs) :
                      b \in Branches, t \in ParamTargets}
    /\ token = TRUE
    /\ pc = "invoke"
    /\ err = NoError
    /\ net = <<Call("jenkins.connect", CI_SERVER, "ok"),
               Call("jenkins.get_job", DEFAULT_JOB, "ok")>>
    /\ repos_to_prs = <<>> /\ all_user_pulls = <<>> /\ choices = <<>> /\ texts = <<>>
    /\ ninputs = 0 /\ return_prs = <<>> /\ chosen_pulls = <<>> /\ pull_texts = <<>>
    /\ baseline = <<>> /\ master_repos = <<>> /\ shortnames = <<>> /\ warned = <<>>
    /\ gists = <<>>
    /\ gist_url \in {"", RawUrl}
    /\ Truthy(gist_url) \/ Truthy(parsed.branch)
    /\ extra_build_args \in ParamArgs
    /\ extra_test_args \in ParamArgs
    /\ comment_texts = <<>>
    /\ retries_remaining = SERVER_RETRIES
    /\ build_job \in {[name |-> DEFAULT_JOB, defaults |-> d] : d \in ParamJobDefaults}
    /\ build_params = [x \in {} |-> ""]
    /\ console_output = <<>>
    /\ comments = <<>>

NextParams == InvokeBuild

SpecParams == InitParams /\ [][NextParams]_vars

(***************************************************************************)
(* run_jenkins_build from line 297 on: the report, on every console text   *)
(* of at most MaxConsole characters over an alphabet with the bullet, the  *)
(* line end, a blank and a letter.                                         *)
(***************************************************************************)
ConsoleChars == {"*", "\n", " ", "L"}

ReportConsoles == UNION {[1..n -> ConsoleChars] : n \in 0..MaxConsole}

InitReport ==
    /\ parsed = Parsed("feature", <<>>, FALSE, "rolling", TRUE, FALSE, NoLateArgs)
    /\ token = TRUE
    /\ chosen_pulls = <<>>
    /\ pull_texts = <<>>
    /\ baseline = <<>>
    /\ master_repos = <<>>
    /\ Entry("get_console")

NextReport == GetConsoleFrom(ReportConsoles)

SpecReport == InitReport /\ [][NextReport]_vars

(***************************************************************************)
(* prompt_pull_selection by itself, on the list of the user's open pull    *)
(* requests, up to its return to main (line 414).                          *)
(***************************************************************************)
InitPrompt ==
    /\ parsed = Parsed("", <<>>, TRUE, "rolling", FALSE, FALSE, NoLateArgs)
    /\ token = TRUE
    /\ chosen_pulls = <<>>
    /\ pull_texts = <<>>
    /\ baseline = <<>>
    /\ master_repos = <<>>
    /\ pc = "prompt"
    /\ err = NoError
    /\ net = <<Call("github.get_user", "", "ok"), Call("github.search_issues", "", "ok")>>
    /\ all_user_pulls \in {prs \in UserIssueLists : Len(prs) > 0}
    /\ repos_to_prs = <<>> /\ choices = <<>> /\ texts = <<>> /\ ninputs = 0
    /\ return_prs = <<>> /\ shortnames = <<>> /\ warned = <<>> /\ gists = <<>>
    /\ gist_url = "" /\ extra_build_args = "" /\ extra_test_args = ""
    /\ comment_texts = <<>>
    /\ retries_remaining = SERVER_RETRIES
    /\ build_job = NoJob
    /\ build_params = [x \in {} |-> ""]
    /\ console_output = <<>>
    /\ comments = <<>>

NextPrompt == PromptPullSelection \/ AsPullRequest

SpecPrompt == InitPrompt /\ [][NextPrompt]_vars

(***************************************************************************)
(* Properties.                                                             *)
(***************************************************************************)
SameBaseTwice(pulls) ==
    \E i, j \in 1..Len(pulls) : i # j /\ pulls[i].base = pulls[j].base

\* C1: whenever two selected pull requests have the same base repository the
\* run ends in a fatal error: it publishes no gist and does not complete,
\* however the pull requests were selected.  The interactive selection
\* breaks it: prompt_pull_selection checks nothing about base repositories.
C1_DuplicateBaseIsFatal ==
    SameBaseTwice(chosen_pulls) => gists = <<>> /\ pc # "done"

\* the pull requests a run has fetched for the identifiers of --pulls (C1,
\* explicit selection): no two share a base repository
C1_ExplicitSelectionDistinct ==
    ~parsed.interactive => ~SameBaseTwice(return_prs)

(***************************************************************************)
(* C2, on the merge loop by itself.                                        *)
(***************************************************************************)
DistinctBases(pulls) == ~SameBaseTwice(pulls)

EntriesNamed(d, name) == {k \in 1..Len(d) : d[k].name = name}

\* C2: for overrides with pairwise distinct base repositories the merged
\* manifest holds exactly one entry per override, keyed by its head
\* repository, of type git, with the head's URL and the head ref as version,
\* and every baseline entry that is the base of no override is still there
\* unchanged.  A head that is also another override's base or head, or the
\* name of an untouched baseline entry, breaks it.
C2_MergeContainsOverridesAndRest ==
    (pc = "create_gist" /\ DistinctBases(chosen_pulls)) =>
        /\ \A i \in 1..Len(chosen_pulls) :
              /\ Cardinality(EntriesNamed(master_repos, chosen_pulls[i].head)) = 1
              /\ Lookup(master_repos, chosen_pulls[i].head) =
                     [name |-> chosen_pulls[i].head,
                      type |-> "git",
                      url |-> "https://github.com/" \o chosen_pulls[i].head \o ".git",
                      version |-> chosen_pulls[i].ref]
        /\ \A k \in 1..Len(baseline) :
              (\A i \in 1..Len(chosen_pulls) : chosen_pulls[i].base # baseline[k].name)
                  => \E m \in 1..Len(master_repos) : master_repos[m] = baseline[k]

\* override i is the last word on its head repository: no later override
\* has the same head, or has that head as its base
LastOnHead(pulls, i) ==
    \A j \in (i + 1)..Len(pulls) :
        pulls[j].head # pulls[i].head /\ pulls[j].base # pulls[i].head

\* C2, amended: for overrides with pairwise distinct base repositories, the
\* merged manifest names no repository twice; it holds the entry of every
\* override whose head repository is neither the head nor the base of a
\* later override (key the head repository, type git, the head's URL, the
\* head ref as version); and every baseline entry whose name is neither the
\* base nor the head of any override is still there unchanged.
C2_MergeAmended ==
    (pc = "create_gist" /\ DistinctBases(chosen_pulls)) =>
        /\ \A m \in 1..Len(master_repos) :
              Cardinality(EntriesNamed(master_repos, master_repos[m].name)) = 1
        /\ \A i \in 1..Len(chosen_pulls) :
              LastOnHead(chosen_pulls, i) =>
                  /\ Cardinality(EntriesNamed(master_repos, chosen_pulls[i].head)) = 1
                  /\ Lookup(master_repos, chosen_pulls[i].head) =
                         [name |-> chosen_pulls[i].head,
                          type |-> "git",
                          url |-> "https://github.com/" \o chosen_pulls[i].head \o ".git",
                          version |-> chosen_pulls[i].ref]
        /\ \A k \in 1..Len(baseline) :
              (\A i \in 1..Len(chosen_pulls) :
                  /\ chosen_pulls[i].base # baseline[k].name
                  /\ chosen_pulls[i].head # baseline[k].name)
                  => \E m \in 1..Len(master_repos) : master_repos[m] = baseline[k]

\* C2, witness: two overrides with distinct bases are merged, the second one's
\* base being the first one's head, next to an untouched baseline entry
C2_Witness ==
    /\ pc = "create_gist"
    /\ Len(chosen_pulls) = 2
    /\ DistinctBases(chosen_pulls)
    /\ chosen_pulls[2].base = chosen_pulls[1].head
    /\ HasName(baseline, chosen_pulls[1].base)
    /\ \E k \in 1..Len(baseline) :
          /\ \A i \in 1..2 : baseline[k].name \notin {chosen_pulls[i].base, chosen_pulls[i].head}
          /\ \E m \in 1..Len(master_repos) : master_repos[m] = baseline[k]

(***************************************************************************)
(* C3 to C7, on runs of main.                                              *)
(***************************************************************************)
JenkinsCalls ==
    {"jenkins.connect", "jenkins.get_job", "job.invoke", "queue_item.get_build",
     "build.get_console"}

LookupFailed == err.type = "KeyError" /\ err.why \in {"ROS_DISTRO_TO_UBUNTU_DISTRO",
                                                      "ROS_DISTRO_TO_RHEL_DISTRO"}

\* C3: when a run that requests a build fails with the lookup error of a
\* release target missing from a table, no network call has been made.  The
\* lookup is made in run_jenkins_build, after main has talked to GitHub.
C3_LookupFailsBeforeAnyCall ==
    (parsed.build /\ parsed.target \in {"noetic", "unknown-distro"} /\ LookupFailed)
        => net = <<>>

\* what does hold of such runs (C3): the lookup fails before any call to
\* Jenkins, and they never complete nor post a comment
C3_NoJenkinsCallForMissingTarget ==
    (parsed.build /\ parsed.target \in {"noetic", "unknown-distro"}) =>
        /\ \A k \in 1..Len(net) : net[k].call \notin JenkinsCalls
        /\ comments = <<>>
        /\ pc # "done"

\* C4: colcon build, colcon test or cmake arguments without --build are
\* rejected before any network call, so with no pull request fetched and
\* no gist published.  The check is made after the selection and the gist.
C4_BuildArgsRejectedBeforeAnyCall ==
    err = Panic("build args without build") => net = <<>> /\ gists = <<>>

\* C5: in a run that reaches run_jenkins_build exactly one of gist_url and
\* branch_name is set, and the assertion of line 250 never fails.
C5_ExactlyOneOfGistAndBranch ==
    /\ pc \in {"run_jenkins_build", "fetch_job", "invoke", "get_build", "get_console"}
          => Truthy(gist_url) # Truthy(parsed.branch)
    /\ err.type # "AssertionError"

\* C5, witness: run_jenkins_build is reached with a branch and with pull
\* requests chosen as well
C5_Witness ==
    /\ pc = "run_jenkins_build"
    /\ Truthy(parsed.branch)
    /\ Truthy(chosen_pulls)
    /\ ~Truthy(gist_url)

JobFetches == {k \in 1..Len(net) : net[k].call = "jenkins.get_job"}

FailedJobFetches == {k \in JobFetches : net[k].outcome = "ConnectionError"}

\* C6: the job info is fetched at most 1 + SERVER_RETRIES = 3 times; after
\* the first and the second connection failure the loop goes on to fetch
\* again; the connection failure reaches the caller exactly when the third
\* attempt in a row fails with one; and the loop is left without raising
\* only with build_job set.
C6_BoundedRetry ==
    /\ Cardinality(JobFetches) <= 3
    /\ (err = Raise("ConnectionError", "get_job")) <=> (Cardinality(FailedJobFetches) = 3)
    /\ (Cardinality(FailedJobFetches) \in {1, 2}
           /\ net[Len(net)] = Call("jenkins.get_job", DEFAULT_JOB, "ConnectionError"))
          => pc = "fetch_job" /\ err = NoError /\ retries_remaining >= 0
    /\ pc \in {"invoke", "get_build", "get_console"} => build_job # NoJob
    /\ err.type # "AttributeError"

\* C6, witness: the third attempt in a row fails and the failure is raised
C6_Witness ==
    /\ pc = "exit"
    /\ err = Raise("ConnectionError", "get_job")
    /\ Cardinality(FailedJobFetches) = 3

\* C7: a remote call that failed is followed by another remote call only
\* when it is a job-info fetch that failed with a connection error, and the
\* call that follows is the next job-info fetch; any other failure is the
\* last call of the run, which it ends.
C7_OnlyConnectionFailuresRetried ==
    /\ \A k \in 1..Len(net) :
          (net[k].outcome # "ok" /\ k < Len(net)) =>
              /\ net[k] = Call("jenkins.get_job", DEFAULT_JOB, "ConnectionError")
              /\ net[k + 1].call = "jenkins.get_job"
    /\ \A k \in 1..Len(net) :
          (net[k].outcome # "ok" /\ net[k] # Call("jenkins.get_job", DEFAULT_JOB, "ConnectionError"))
              => k = Len(net) /\ pc = "exit" /\ err # NoError

\* C7, witness: a job-info fetch fails with another error after a connection
\* failure was retried, and the run is over
C7_Witness ==
    /\ pc = "exit"
    /\ Len(net) >= 2
    /\ net[Len(net)] = Call("jenkins.get_job", DEFAULT_JOB, "UnknownJob")
    /\ net[Len(net) - 1] = Call("jenkins.get_job", DEFAULT_JOB, "ConnectionError")

(***************************************************************************)
(* C8, on the argument assembly by itself.                                 *)
(***************************************************************************)
CmakeSuffix ==
    IF parsed.cmake_args = "" THEN "" ELSE " --cmake-args " \o parsed.cmake_args

\* C8: for a non-empty package list P the build arguments gain exactly
\* ' --packages-up-to P' and the test arguments ' --packages-select P' with
\* --only-fixes-test, and ' --packages-above-and-dependencies P' and
\* ' --packages-above P' without it; with no package list neither gains a
\* package flag.  (The cmake arguments follow the package flag.)
C8_PackageFlags ==
    (pc \in {"get_user", "comment"}) =>
        LET P == JoinStr(" ", parsed.packages)
        IN  /\ (parsed.packages # <<>> /\ parsed.only_fixes_test) =>
                  /\ extra_build_args =
                         parsed.colcon_build_args \o " --packages-up-to " \o P \o CmakeSuffix
                  /\ extra_test_args =
                         parsed.colcon_test_args \o " --packages-select " \o P
            /\ (parsed.packages # <<>> /\ ~parsed.only_fixes_test) =>
                  /\ extra_build_args =
                         parsed.colcon_build_args \o " --packages-above-and-dependencies "
                             \o P \o CmakeSuffix
                  /\ extra_test_args =
                         parsed.colcon_test_args \o " --packages-above " \o P
            /\ parsed.packages = <<>> =>
                  /\ extra_build_args = parsed.colcon_build_args \o CmakeSuffix
                  /\ extra_test_args = parsed.colcon_test_args
            /\ (parsed.packages = <<"rclpy", "rcl">> /\ parsed.colcon_test_args = "") =>
                  extra_test_args = (IF parsed.only_fixes_test
                                     THEN " --packages-select rclpy rcl"
                                     ELSE " --packages-above rclpy rcl")

\* C8, witness: two packages with --only-fixes-test, after the assembly
C8_Witness ==
    /\ pc = "get_user"
    /\ parsed.packages = <<"rclpy", "rcl">>
    /\ parsed.only_fixes_test
    /\ extra_build_args = "--symlink-install --packages-up-to rclpy rcl --cmake-args -DFOO=1"

(***************************************************************************)
(* C9 and C10, on validate_and_fetch_pull_list by itself.                  *)
(***************************************************************************)
\* neither the URL form nor exactly one '#'
Malformed(id) == ~UrlMatch(id).matched /\ Count(id, "#") # 1

\* the '#' form with a part after the '#' that int() rejects
BadNumber(id) ==
    /\ ~UrlMatch(id).matched
    /\ Count(id, "#") = 1
    /\ ~IntParse(SplitHash(id)[2]).ok

GithubCalled == \E k \in 1..Len(net) : net[k].call \in {"github.get_repo", "repo.get_pull"}

\* C9: a list with an identifier that is not of the URL form and has no or
\* several '#', or whose part after the '#' is no integer, ends the run in a
\* fatal error with no pull request fetched for any identifier; the error is
\* the format error, or the ValueError of int(), when that identifier is the
\* first one of the list to be refused.
C9_MalformedIdentifierIsFatal ==
    pc # "validate" =>
        \A k \in 1..Len(parsed.pulls) :
            /\ (Malformed(parsed.pulls[k]) \/ BadNumber(parsed.pulls[k])) =>
                  /\ pc = "exit"
                  /\ err.type \in {"RuntimeError", "ValueError"}
                  /\ ~GithubCalled
                  /\ return_prs = <<>>
            /\ (Len(repos_to_prs) = k - 1 /\ Malformed(parsed.pulls[k])) =>
                  err = Panic("descriptor format")
            /\ (Len(repos_to_prs) = k - 1 /\ BadNumber(parsed.pulls[k])) =>
                  err.type = "ValueError"

\* C9, witness: the second identifier of a list has several '#', the first
\* one was accepted, and the run has ended
C9_Witness ==
    /\ pc = "exit"
    /\ Len(parsed.pulls) = 2
    /\ Len(repos_to_prs) = 1
    /\ Count(parsed.pulls[2], "#") > 1
    /\ Malformed(parsed.pulls[2])

Resolved(o, r, n) == <<[repo |-> Str(o) \o "/" \o Str(r), number |-> n[2]]>>

\* the list of identifiers passed the validation: the run went on to fetch
Accepted == err.type \notin {"RuntimeError", "ValueError"}

AfterGistStep ==
    pc \in {"assemble_args", "get_user", "run_jenkins_build", "fetch_job", "invoke",
            "get_build", "get_console", "comment", "done"}

\* the remote calls that fetch the baseline manifest or publish a gist
ManifestCalls == {k \in 1..Len(net) : net[k].call \in {"requests.get", "user.create_gist"}}

\* run_jenkins_build has computed the parameters it sends
ParamsSent == DOMAIN build_params # {}

\* C11: a manifest gist is published if and only if at least one pull
\* request is selected and no branch name is given; its raw URL is the
\* CI_ROS2_REPOS_URL sent to the build; with a branch name no manifest is
\* fetched, merged or published, even with pull requests selected, and of
\* the two only CI_BRANCH_TO_TEST is set.
C11_GistIffPullsWithoutBranch ==
    /\ Len(gists) <= 1
    /\ gists # <<>> => Truthy(chosen_pulls) /\ ~Truthy(parsed.branch)
    /\ AfterGistStep =>
          (gists # <<>> <=> Truthy(chosen_pulls) /\ ~Truthy(parsed.branch))
    /\ gists # <<>> =>
          /\ gist_url = RawUrl
          /\ ParamsSent => build_params["CI_ROS2_REPOS_URL"] = RawUrl
    /\ Truthy(parsed.branch) =>
          /\ ManifestCalls = {}
          /\ baseline = <<>> /\ master_repos = <<>> /\ shortnames = <<>>
          /\ gists = <<>> /\ gist_url = ""
          /\ ParamsSent =>
                /\ build_params["CI_BRANCH_TO_TEST"] = parsed.branch
                /\ build_params["CI_ROS2_REPOS_URL"]
                       = build_job.defaults["CI_ROS2_REPOS_URL"]

\* C11, witness: a build has been sent the URL of the gist just published
C11_Witness ==
    /\ pc = "get_build"
    /\ Len(gists) = 1
    /\ ParamsSent
    /\ build_params["CI_ROS2_REPOS_URL"] = gist_url

(***************************************************************************)
(* C12 and C13, on the merge loop of create_ci_gist.                       *)
(***************************************************************************)
\* override i is of a repository the baseline manifest has no entry for
MissingBase(i) == ~HasName(baseline, chosen_pulls[i].base)

\* a warning naming the head repository of override i was logged (line 90)
WarnedAbout(i) == \E k \in 1..Len(warned) : warned[k] = chosen_pulls[i].head

\* the only fatal error of the merge loop is the one of line 88, for a
\* baseline entry that is not git-based
NonGitBase(i) ==
    /\ HasName(baseline, chosen_pulls[i].base)
    /\ Lookup(baseline, chosen_pulls[i].base).type # "git"

\* the merge loop ended in the panic of line 88
MergeFailed == err = Panic("not git-based")

\* C12: an override whose base repository has no entry in the baseline
\* manifest does not stop the merge: a warning is logged for it, the merge
\* goes on over all the overrides and the manifest is handed on for
\* publication.  The pop of line 85 reads the manifest being built, not the
\* baseline: a base that an earlier override inserted as its head is found,
\* and no warning is logged, also when all the bases are distinct.
C12_MissingBaseIsWarned ==
    (/\ pc # "merge"
     /\ DistinctBases(chosen_pulls)
     /\ \A i \in 1..Len(chosen_pulls) : ~NonGitBase(i)) =>
        /\ ~MergeFailed
        /\ Len(shortnames) = Len(chosen_pulls)
        /\ \A i \in 1..Len(chosen_pulls) : MissingBase(i) => WarnedAbout(i)
        /\ pc = "assemble_args" => Len(gists) = 1

\* the base of override i is the head of an earlier override
BaseInsertedEarlier(i) ==
    \E j \in 1..(i - 1) : chosen_pulls[j].head = chosen_pulls[i].base

\* C12, what does hold: the merge stops only for a baseline entry that is
\* not git-based; an override whose base is neither in the baseline nor the
\* head of an earlier override is warned about; and its entry is in the
\* manifest unless a later override took it out
C12_MissingBaseDoesNotStop ==
    pc # "merge" =>
        /\ MergeFailed => \E i \in 1..Len(chosen_pulls) : NonGitBase(i)
        /\ pc = "assemble_args" => gists = <<[repositories |-> master_repos,
                 description |-> "CI input for PR " \o JoinStr(" ", shortnames)]>>
        /\ ~MergeFailed =>
              /\ Len(shortnames) = Len(chosen_pulls)
              /\ \A i \in 1..Len(chosen_pulls) :
                    (MissingBase(i) /\ ~BaseInsertedEarlier(i)) =>
                        /\ WarnedAbout(i)
                        /\ LastOnHead(chosen_pulls, i) =>
                               Lookup(master_repos, chosen_pulls[i].head)
                                   = OverrideEntry(chosen_pulls[i])

\* the entry popped for override i is the baseline's and is not git-based:
\* the baseline has a non-git entry for its base, and no earlier override
\* has replaced that entry by writing its own head under the same name
RemovesNonGit(i) == NonGitBase(i) /\ ~BaseInsertedEarlier(i)

Overridden ==
    {"CI_ROS2_REPOS_URL", "CI_BRANCH_TO_TEST", "CI_ROS_DISTRO", "CI_BUILD_ARGS",
     "CI_TEST_ARGS", "CI_UBUNTU_DISTRO", "CI_EL_RELEASE"}

\* parameter name is sent as the job declares it: with its default, or not
\* at all when the job does not declare it
KeepsDefault(name) ==
    IF name \in DOMAIN build_job.defaults
    THEN name \in DOMAIN build_params /\ build_params[name] = build_job.defaults[name]
    ELSE name \notin DOMAIN build_params

\* the platform parameter name is the table's value, or the job's default
\* where the table holds the empty placeholder
PlatformParam(name, table) ==
    IF table[parsed.target] = ""
    THEN KeepsDefault(name)
    ELSE build_params[name] = table[parsed.target]

\* C14: the parameters sent to the job are its declared defaults except
\* for the overridden names: every other parameter keeps its default;
\* CI_BUILD_ARGS and CI_TEST_ARGS are their defaults followed by a space and
\* the supplied arguments; a platform parameter whose table entry is the
\* empty placeholder is not overridden and keeps the job's own default.
C14_ParamsAreDefaultsPlusOverrides ==
    ParamsSent =>
        /\ DOMAIN build_params \subseteq DOMAIN build_job.defaults \cup Overridden
        /\ \A name \in (DOMAIN build_job.defaults \cup DOMAIN build_params) \ Overridden :
              KeepsDefault(name)
        /\ build_params["CI_BUILD_ARGS"]
              = build_job.defaults["CI_BUILD_ARGS"] \o " " \o extra_build_args
        /\ build_params["CI_TEST_ARGS"]
              = build_job.defaults["CI_TEST_ARGS"] \o " " \o extra_test_args
        /\ build_params["CI_ROS_DISTRO"] = parsed.target
        /\ PlatformParam("CI_UBUNTU_DISTRO", ROS_DISTRO_TO_UBUNTU_DISTRO)
        /\ PlatformParam("CI_EL_RELEASE", ROS_DISTRO_TO_RHEL_DISTRO)
        /\ ~Truthy(gist_url) => KeepsDefault("CI_ROS2_REPOS_URL")
        /\ ~Truthy(parsed.branch) => KeepsDefault("CI_BRANCH_TO_TEST")

\* C14, witness: parameters were sent for rolling, whose table entries are
\* the empty placeholder, to a job with defaults of its own for both
\* platforms and a parameter the program does not know
C14_Witness ==
    /\ ParamsSent
    /\ parsed.target = "rolling"
    /\ build_job.defaults \in JobDefaults
    /\ build_params["CI_UBUNTU_DISTRO"] = "noble"
    /\ build_params["CI_EL_RELEASE"] = "9"
    /\ build_params["CI_USE_CONNEXTDDS"] = "true"
    /\ Truthy(extra_build_args)

\* the console text has a line starting at character k
LineStartsAt(text, k) == k = 1 \/ text[k - 1] = "\n"

\* the console text read one character at a time: a bullet at the start of
\* a line opens a kept line, a line end closes it, and every kept line is
\* copied after a line end of its own
RECURSIVE KeptFrom(_, _, _)
KeptFrom(text, k, keeping) ==
    IF k > Len(text) THEN <<>>
    ELSE IF text[k] = "\n" THEN KeptFrom(text, k + 1, FALSE)
    ELSE IF LineStartsAt(text, k)
    THEN IF text[k] = "*" THEN <<"\n", "*">> \o KeptFrom(text, k + 1, TRUE)
                          ELSE KeptFrom(text, k + 1, FALSE)
    ELSE IF keeping THEN <<text[k]>> \o KeptFrom(text, k + 1, TRUE)
    ELSE KeptFrom(text, k + 1, FALSE)

\* the console of the build was fetched
ConsoleFetched ==
    net # <<>> /\ net[Len(net)] = Call("build.get_console", DEFAULT_JOB, "ok")

\* C15: the report is one first line with the link to the build's own
\* page, then exactly the console lines that begin with '*', verbatim and
\* in console order, and nothing else; with no such line it is the link
\* line alone, and no error is raised.
C15_ReportIsLinkThenBulletLines ==
    ConsoleFetched =>
        /\ err = NoError
        /\ pc \in {"comment", "done"}
        /\ comment_texts[Len(comment_texts)]
              = DEFAULT_JOB \o " ran: " \o BaseUrl \o Str(KeptFrom(console_output, 1, FALSE))
        /\ (\A k \in 1..Len(console_output) :
                 ~(LineStartsAt(console_output, k) /\ console_output[k] = "*"))
              => comment_texts[Len(comment_texts)] = DEFAULT_JOB \o " ran: " \o BaseUrl

\* C15, witness: a report was made of a console whose second line begins
\* with '*' and whose first line has a '*' after a blank
C15_Witness ==
    /\ ConsoleFetched
    /\ console_output = <<" ", "*", "\n", "*">>
    /\ comment_texts[Len(comment_texts)] = DEFAULT_JOB \o " ran: " \o BaseUrl \o "\n*"

(***************************************************************************)
(* C16 and C17, on runs of main.                                           *)
(***************************************************************************)
\* the command line selects no pull request: neither --pulls nor
\* --interactive
NothingSelected == ~parsed.interactive /\ ~Truthy(parsed.pulls)

\* a build was started on the Jenkins server
BuildStarted == \E k \in 1..Len(net) : net[k].call = "job.invoke"

\* C16: a run with a branch name and --comment but neither --pulls nor
\* --interactive ends in a fatal error before any gist is published, any
\* build is started or any comment is posted, and so does a run with
\* neither a branch name nor a selection.
C16_NoSelectionIsFatal ==
    (NothingSelected /\ (~Truthy(parsed.branch) \/ parsed.comment)) =>
        /\ pc \in {"main", "check_selection", "exit"}
        /\ pc = "exit" => err.type = "RuntimeError"
        /\ pc = "exit" /\ token =>
              err = IF Truthy(parsed.branch) THEN Panic("no PRs to comment on")
                                             ELSE Panic("no PRs selected")
        /\ net = <<>>
        /\ gists = <<>>
        /\ ~BuildStarted
        /\ comments = <<>>

\* C16, witness: a run with --branch, --comment and --build and no
\* selection ended in the panic of line 425
C16_Witness ==
    /\ NothingSelected
    /\ Truthy(parsed.branch)
    /\ parsed.comment
    /\ parsed.build
    /\ pc = "exit"
    /\ err = Panic("no PRs to comment on")

(***************************************************************************)
(* C18, on prompt_pull_selection.                                          *)
(***************************************************************************)
\* prompt_pull_selection has returned to main
PromptReturned == parsed.interactive /\ pc = "check_selection"

\* no pull request is twice in the list
EachOnce(pulls) == \A i, j \in 1..Len(pulls) : pulls[i] = pulls[j] => i = j

\* C18: whatever the user types, prompt_pull_selection returns a non-empty
\* list of pull requests with each chosen pull request exactly once, and
\* exactly one text label per returned pull request.  An index typed twice
\* adds its label twice, and an index typed once from the front and once
\* from the end adds the pull request twice.
C18_OneLabelPerChosenPull ==
    PromptReturned =>
        /\ chosen_pulls # <<>>
        /\ EachOnce(chosen_pulls)
        /\ Len(pull_texts) = Len(chosen_pulls)

\* C18, what does hold: the function returns only on an empty answer with
\* a pull request chosen; the returned list is not empty and holds the pull
\* request of every valid answer; every label is the label of a returned
\* pull request and every returned pull request has a label
C18_ReturnsWhatWasChosen ==
    /\ pc = "as_pull_request" => choices # <<>>
    /\ PromptReturned =>
          /\ chosen_pulls # <<>>
          /\ Len(chosen_pulls) = Len(choices)
          /\ {pull_texts[k] : k \in 1..Len(pull_texts)}
                = {ShortName(chosen_pulls[k]) : k \in 1..Len(chosen_pulls)}

(***************************************************************************)
(* C17, on runs of main.                                                   *)
(***************************************************************************)
\* the remote calls that post a comment
CommentCalls == {k \in 1..Len(net) : net[k].call = "pull.create_issue_comment"}

\* the comments posted on pull request pr
CommentsOn(pr) == {k \in 1..Len(comments) : comments[k].pull = pr}

\* remote call k failed and was made again with success (lines 261-270)
Retried(k) ==
    /\ k \in FailedJobFetches
    /\ \E m \in JobFetches : m > k /\ net[m].outcome = "ok"

\* every step before comment_results went through: no remote call before
\* the first comment failed for good, and with --build the build was run
\* and its report made
EarlierStepsDone ==
    /\ \A k \in 1..Len(net) :
          k \notin CommentCalls => net[k].outcome = "ok" \/ Retried(k)
    /\ Truthy(chosen_pulls)
    /\ Truthy(parsed.branch) \/ gists # <<>>
    /\ Len(comment_texts) = IF parsed.build THEN 2 ELSE 1
    /\ parsed.build => ParamsSent /\ BuildStarted

\* comments are posted only with --comment, only after every earlier step
\* went through, and nothing is called after them
CommentsAreLast ==
    /\ comments # <<>> => parsed.comment /\ EarlierStepsDone
    /\ \A k \in CommentCalls : \A m \in k..Len(net) : m \in CommentCalls
    /\ (err # NoError /\ err # Raise("GithubException", "create_issue_comment"))
          => comments = <<>> /\ CommentCalls = {}
    /\ \A k \in 1..Len(comments) : comments[k].body = JoinStr("\n", comment_texts)

\* C17: comments are posted only as the last step, only with --comment and
\* only when every earlier step went through; a run that gets through
\* comment_results has then posted exactly one comment on every selected
\* pull request, all with the same body; when an earlier step fails no
\* comment is posted.  A pull request chosen twice at the prompt is
\* commented on twice.
C17_OneCommentPerPullAtTheEnd ==
    /\ CommentsAreLast
    /\ (pc = "done" /\ parsed.comment) =>
          \A k \in 1..Len(chosen_pulls) : Cardinality(CommentsOn(chosen_pulls[k])) = 1

\* C17, what does hold: comments come last, and a run that gets through
\* comment_results has posted one comment per element of the list of
\* chosen pull requests, in its order
C17_OneCommentPerListElement ==
    /\ CommentsAreLast
    /\ (pc = "done" /\ parsed.comment) =>
          /\ Len(comments) = Len(chosen_pulls)
          /\ \A k \in 1..Len(comments) : comments[k].pull = chosen_pulls[k]
    /\ Len(comments) <= Len(chosen_pulls)

====
